---- MODULE Spec2Model ----
(***************************************************************************)
(* Model of 1_scraping_wikipedia.py: the script resolves each keyword of   *)
(* keywords.xlsx to a Wikipedia title (Action API search, then REST        *)
(* search), fetches the plain-text extract and the section outline, and    *)
(* writes one JSON line per keyword to data.txt.  A snapshot-id file       *)
(* distinguishes the first execution from the subsequent ones.             *)
(*                                                                         *)
(* Strings the code inspects character by character (keywords, titles,     *)
(* section names, urls) are sequences of one-character strings.  An        *)
(* Optional[...] value is a sequence of length 0 (None) or 1.              *)
(***************************************************************************)
EXTENDS Integers, Sequences, FiniteSets, TLC

VARIABLES
    keywords,    \* the "Keyword" column of keywords.xlsx, in row order (line 261)
    remote,      \* what Wikipedia answers: <<endpoint, argument>> -> response
    marker,      \* os.path.isfile(SNAPSHOT_STORAGE_FILE)
    data,        \* DATASET_STORAGE_FOLDER/data.txt: [exists, lines]
    others,      \* whether DATASET_STORAGE_FOLDER holds an entry besides data.txt
    again,       \* whether the running execution follows an earlier one
    prevData,    \* data.txt as the previous execution left it
    pc,          \* position of the running execution
    idx,         \* position of the for loop of line 204 in df.index (1-based)
    query, resolved, title, text, norm_title, pageid, toc,  \* locals, lines 205-228
    attempt,     \* the retry loops' attempt (lines 90, 109, 147, 178)
    calls,       \* calls made for the current keyword: <<endpoint, argument>>
    raised,      \* functions that raised to the orchestrator for the current keyword
    netFor,      \* rows for which a request was sent in this execution
    delays,      \* time.sleep(DELAY_BETWEEN_REQUESTS) taken in this execution (line 247)
    last         \* the latest request of the row: answered or not, the sleep after it

vars == <<keywords, remote, marker, data, others, again, prevData, pc, idx, query, resolved,
          title, text, norm_title, pageid, toc, attempt, calls, raised, netFor, delays,
          last>>

locals == <<query, resolved, title, text, norm_title, pageid, toc>>

-----------------------------------------------------------------------------
(* Configuration, lines 25-46 *)

MAX_RETRIES == 3
WIKI_LANG == "en"
AUTO_FETCH_ON_FIRST_RUN == TRUE

(* time.sleep(0.7 * attempt) of the retry loops (lines 99, 118, 162, 193),
   in tenths of a second *)
BACKOFF_STEP == 7
backoff(n) == BACKOFF_STEP * n

(* Bounds of the model *)
MaxKeywords == 2      \* rows of keywords.xlsx
MaxFolderKeywords == 1    \* rows of keywords.xlsx when the folder holds other entries

-----------------------------------------------------------------------------
(* Python values *)

None == << >>
Some(v) == <<v>>
Truthy(opt) == opt # None /\ opt[1] # << >>     \* `if title:`, `resolved or query`

IsSpace(c) == c = " "

RECURSIVE lstrip(_)
lstrip(s) == IF s # << >> /\ IsSpace(Head(s)) THEN lstrip(Tail(s)) ELSE s

RECURSIVE rstrip(_)
rstrip(s) ==
    IF s # << >> /\ IsSpace(s[Len(s)]) THEN rstrip(SubSeq(s, 1, Len(s) - 1)) ELSE s

\* fault variant: the keyword is not stripped
strip_identity(s) == s
\* str.strip()                                                      (line 205)
strip(s) == rstrip(lstrip(s))

(* A cell of the Keyword column: a text cell, or an empty cell, which pandas
   reads as the float NaN.  str() of a text is the text, str(nan) is "nan". *)
TextCell(s) == [kind |-> "str", value |-> s]
NaNCell == [kind |-> "float", value |-> << >>]
str(cell) == IF cell.kind = "float" THEN <<"n", "a", "n">> ELSE cell.value

(* urllib.parse.quote with its default safe="/": the unreserved characters and
   "/" are kept, every other character becomes %XX of its UTF-8 bytes. *)
Unreserved == {"a", "b", "n", "A", "B", "R", "_", ".", "-", "~", "/"}
PercentEncoded(c) ==
    CASE c = " " -> <<"%", "2", "0">>
      [] c = "?" -> <<"%", "3", "F">>
      [] c = "%" -> <<"%", "2", "5">>
      [] c = "&" -> <<"%", "2", "6">>

RECURSIVE quote(_)
quote(s) ==
    IF s = << >> THEN << >>
    ELSE (IF Head(s) \in Unreserved THEN <<Head(s)>> ELSE PercentEncoded(Head(s)))
         \o quote(Tail(s))

replace(s, old, new) == [i \in 1..Len(s) |-> IF s[i] = old THEN new ELSE s[i]]

canonical_url(lang, t) ==
    <<"https://", lang, ".wikipedia.org/wiki/">> \o quote(replace(t, " ", "_"))

-----------------------------------------------------------------------------
(* The remote site.  The answer to one request is Ok(body), what
   SESSION.get(...).json() gives, or Failed: the request raises (timeout, HTTP
   error, bad JSON).  The remote state is not known in advance: what it holds
   for <<endpoint, argument>> is chosen when a call first gets it and kept in
   `remote`, so the same call ends alike for as long as the remote state
   stands.  remote[<<endpoint, argument>>] is Ok(body) when the endpoint
   answers the call (single attempts may still fail, but it answers within
   the retry ceiling), Failed when it fails every attempt of the call. *)

Failed == [ok |-> FALSE, body |-> << >>]
Ok(body) == [ok |-> TRUE, body |-> body]

HitAction == <<"A", " ", "b", "?">>     \* top hit of the Action API search
HitRest == <<"B", "&", "b">>            \* top hit of the REST search
Redirect == <<"R", " ", "%">>           \* title the extract endpoint normalizes to
Extract == "Albert Einstein was..."

Sections ==
    << [line |-> Some(<<"A", " ">>), anchor |-> Some(<<"A">>)],
       [line |-> Some(<< >>),        anchor |-> Some(<<"B">>)],
       [line |-> Some(<<" ">>),      anchor |-> Some(<<"n">>)],
       [line |-> None,               anchor |-> None] >>

Responses(endpoint, arg) ==
    CASE endpoint = "action" ->
           {Ok(<< >>), Ok(<<[title |-> Some(HitAction)]>>)}
      [] endpoint = "rest" ->
           {Ok(<< >>), Ok(<<[title |-> Some(HitRest)]>>)}
      [] endpoint = "extract" ->
           {Ok(<<[title |-> Some(arg), extract |-> None, pageid |-> None]>>),
            Ok(<<[title |-> Some(Redirect), extract |-> Some(Extract),
                  pageid |-> Some(736)]>>)}
      [] endpoint = "parse" ->
           {Ok(Sections)}

Known(endpoint, arg) == <<endpoint, arg>> \in DOMAIN remote

\* what attempt number n of a call may get
Answers(endpoint, arg, n) ==
    IF Known(endpoint, arg)
    THEN IF remote[<<endpoint, arg>>].ok
         THEN {remote[<<endpoint, arg>>]} \cup (IF n < MAX_RETRIES THEN {Failed} ELSE {})
         ELSE {Failed}
    ELSE Responses(endpoint, arg) \cup {Failed}

\* an answer, or the failure of the last attempt, settles what the remote holds
Learn(endpoint, arg, n, resp) ==
    IF ~Known(endpoint, arg) /\ (resp.ok \/ n = MAX_RETRIES)
    THEN remote @@ (<<endpoint, arg>> :> resp)
    ELSE remote

\* fault variant: hits[0] without the `if hits` guard raises inside the try
request_raises_on_no_hits(resp) == ~resp.ok \/ resp.body = << >>
(* the try block of one attempt raises: the request itself, raise_for_status
   or r.json()                        (lines 91-94, 110-113, 148-150, 179-181) *)
request_raises(resp) == ~resp.ok

\* fault variant: `while True`, a call goes on until it is answered
more_attempts_until_answered(n) == TRUE
\* fault variant: range(1, MAX_RETRIES + 2)
more_attempts_off_by_one(n) == n <= MAX_RETRIES
\* for attempt in range(1, MAX_RETRIES + 1): another attempt follows attempt n
more_attempts(n) == n < MAX_RETRIES

NoRequest == [ok |-> TRUE, slept |-> 0]

(* SESSION.get of one attempt: the request is sent (and noted for the row),
   the call is noted at its first attempt; when the try block raises, the
   except clause sleeps 0.7 * attempt before the loop goes on or ends. *)
Request(endpoint, arg, resp) ==
    /\ remote' = Learn(endpoint, arg, attempt, resp)
    /\ netFor' = netFor \cup {idx}
    /\ calls' = IF attempt = 1 THEN Append(calls, <<endpoint, arg>>) ELSE calls
    /\ last' = [ok |-> resp.ok,
                slept |-> IF request_raises(resp) THEN backoff(attempt) ELSE 0]

(* except Exception: last_exc = e; time.sleep(0.7 * attempt); next attempt *)
Retry ==
    /\ more_attempts(attempt)
    /\ attempt' = attempt + 1
    /\ UNCHANGED <<pc, locals, raised>>

-----------------------------------------------------------------------------
(* What the functions compute from a response body *)

\* hits[0].get("title") if hits else None                      (lines 96, 115)
FirstTitle(hits) == IF hits # << >> THEN hits[1].title ELSE None

\* fetch_plaintext_extract's return value                        (lines 152-159)
ExtractResult(pages, t) ==
    IF pages = << >>
    THEN [text |-> "", norm_title |-> t, pageid |-> None]
    ELSE LET page == pages[1]
         IN  [text |-> IF page.extract # None /\ page.extract[1] # ""
                       THEN page.extract[1] ELSE "",
              norm_title |-> IF page.title # None THEN page.title[1] ELSE t,
              pageid |-> page.pageid]

\* name = s.get("line") or s.get("anchor") or ""; name = str(name).strip()
SectionName(s) ==
    strip(IF Truthy(s.line) THEN s.line[1]
          ELSE IF Truthy(s.anchor) THEN s.anchor[1] ELSE << >>)

\* the loop of lines 184-190
RECURSIVE SectionNames(_)
SectionNames(sections) ==
    IF sections = << >> THEN << >>
    ELSE (IF SectionName(Head(sections)) # << >>
          THEN <<SectionName(Head(sections))>> ELSE << >>)
         \o SectionNames(Tail(sections))

(* What a retry loop does once its last attempt has failed: the resolvers and
   the extract fetcher raise RuntimeError (lines 100, 119, 163), the outline
   fetcher returns [] (line 194). *)
Raises == [raises |-> TRUE, value |-> << >>]
Returns(v) == [raises |-> FALSE, value |-> v]

\* fault variant: the primary search returns None when its attempts are exhausted
action_search_exhausted_returns_none == Returns(None)
action_search_exhausted == Raises
rest_search_exhausted == Raises
\* fault variant: the extract fetcher returns an empty result instead of raising
extract_exhausted_returns_empty ==
    Returns([text |-> "", norm_title |-> << >>, pageid |-> None])
extract_exhausted == Raises
\* fault variant: the outline fetcher raises like the other three
sections_exhausted_raises == Raises
sections_exhausted == Returns(<< >>)

-----------------------------------------------------------------------------
(* Files *)

NoFile == [exists |-> FALSE, lines |-> << >>]

\* a line of data.txt: the JSON object, tagged with the row it came from
Line(o, row) == [obj |-> o, src |-> row]

\* a data.txt left behind by an earlier use of the folder
StaleData ==
    [exists |-> TRUE,
     lines |-> << Line([url |-> canonical_url(WIKI_LANG, <<"a">>), title |-> <<"a">>,
                        table_of_contents |-> << >>, raw_text |-> ""], 0) >>]

\* fault variant: data.txt opened with "a"
open_append(file) == [exists |-> TRUE, lines |-> file.lines]
\* out_path.open("w", encoding="utf-8"): created or truncated      (line 203)
open_write(file) == [exists |-> TRUE, lines |-> << >>]

-----------------------------------------------------------------------------
(* The orchestrator's expressions *)

\* fault variant: the resolved title is dropped
effective_title_is_query(res, q) == q
\* title = resolved or query                                        (line 216)
effective_title(res, q) == IF Truthy(res) THEN res[1] ELSE q

\* fault variants: the early return of line 124 is missing; line 125 is missing
resolve_title_always_falls_back(t) == TRUE
resolve_title_never_falls_back(t) == FALSE
\* resolve_title: `if title: return title`, else the REST search    (lines 123-125)
resolve_title_falls_back(t) == ~Truthy(t)

\* fault variant: data.txt is opened anew for every record
append_line_rewrites(lines, l) == <<l>>
\* fault variant: a record already in the file is not written again
append_line_dedup(lines, l) ==
    IF \E j \in DOMAIN lines : lines[j].obj = l.obj THEN lines ELSE Append(lines, l)
\* f.write(json.dumps(obj, ensure_ascii=False) + "\n")              (line 244)
append_line(lines, l) == Append(lines, l)

\* fault variant: the url is built from the title asked for, not the normalized one
obj_url_of_title ==
    [url |-> canonical_url(WIKI_LANG, title), title |-> norm_title,
     table_of_contents |-> toc, raw_text |-> text]
\* the dict of lines 232-241
obj ==
    [url |-> canonical_url(WIKI_LANG, norm_title), title |-> norm_title,
     table_of_contents |-> toc, raw_text |-> text]

\* fault variant: a record whose extract failed is not followed by the delay
inter_record_delays_on_success(n) ==
    IF "fetch_plaintext_extract" \in raised THEN n ELSE n + 1
\* time.sleep(DELAY_BETWEEN_REQUESTS), once per iteration that wrote   (line 247)
inter_record_delays(n) == n + 1

\* fault variant: the outline is asked for the title the extract was asked for
sections_arg_is_title == title
\* fetch_sections(norm_title, lang=WIKI_LANG)                         (line 228)
sections_arg == norm_title

\* fault variant: the outline is fetched before the extract
stage_after_swapped(stage) ==
    CASE stage = "resolve" -> "sections"
      [] stage = "sections" -> "extract"
      [] stage = "extract" -> "write"
(* the order of the statements of one iteration: resolve_title (line 211),
   fetch_plaintext_extract (221), fetch_sections (228), f.write (244) *)
stage_after(stage) ==
    CASE stage = "resolve" -> "extract"
      [] stage = "extract" -> "sections"
      [] stage = "sections" -> "write"

KeywordCells ==
    {TextCell(<< >>), TextCell(<<" ">>), TextCell(<<" ", "a", " ", "b", " ">>), NaNCell}

Rows == 1..Len(keywords)
QueryOf(row) == strip(str(keywords[row]))       \* line 205
Blank(row) == QueryOf(row) = << >>              \* `if not query`, line 206

-----------------------------------------------------------------------------
Init ==
    /\ keywords \in UNION {[1..n -> KeywordCells] : n \in 0..MaxKeywords}
    /\ remote = << >>
    /\ marker \in BOOLEAN
    /\ data \in {NoFile, StaleData}
    /\ others = FALSE
    /\ again = FALSE
    /\ prevData = NoFile
    /\ pc = "start"
    /\ idx = 1
    /\ query = << >> /\ resolved = None /\ title = << >> /\ text = ""
    /\ norm_title = << >> /\ pageid = None /\ toc = << >>
    /\ attempt = 1
    /\ calls = << >>
    /\ raised = {}
    /\ netFor = {}
    /\ delays = 0
    /\ last = NoRequest

(* lines 258-281: the snapshot file is absent: write it, then fetch *)
FirstRun ==
    /\ pc = "start"
    /\ ~marker
    /\ marker' = TRUE
    /\ pc' = IF AUTO_FETCH_ON_FIRST_RUN THEN "open" ELSE "exit"
    /\ UNCHANGED <<keywords, others, remote, data, again, prevData, idx, locals, attempt,
                   calls, raised, netFor, delays, last>>

\* fault variant: a data.txt that is already there is kept and nothing is fetched
SubsequentRun_keeps_data ==
    /\ pc = "start"
    /\ marker
    /\ pc' = IF data.exists THEN "exit" ELSE "open"
    /\ UNCHANGED <<keywords, others, remote, marker, data, again, prevData, idx, locals,
                   attempt, calls, raised, netFor, delays, last>>

(* lines 283-311: the snapshot file is present: remove the files of the
   dataset folder (os.remove may raise, which is only warned about), fetch *)
SubsequentRun ==
    /\ pc = "start"
    /\ marker
    /\ \E removed \in BOOLEAN :
          data' = IF data.exists /\ removed THEN NoFile ELSE data
    /\ \E removed \in BOOLEAN :
          others' = IF removed THEN FALSE ELSE others
    /\ pc' = "open"
    /\ UNCHANGED <<keywords, remote, marker, again, prevData, idx, locals, attempt,
                   calls, raised, netFor, delays, last>>

(* lines 200-203: fetch_and_write_ndjson opens data.txt *)
Open ==
    /\ pc = "open"
    /\ data' = open_write(data)
    /\ idx' = 1
    /\ netFor' = {}
    /\ delays' = 0
    /\ pc' = "loop"
    /\ UNCHANGED <<keywords, others, remote, marker, again, prevData, locals, attempt,
                   calls, raised, last>>

(* lines 204-207: a blank keyword: continue *)
SkipBlank ==
    /\ pc = "loop"
    /\ idx \in Rows
    /\ Blank(idx)
    /\ query' = QueryOf(idx)
    /\ idx' = idx + 1
    /\ UNCHANGED <<keywords, others, remote, marker, data, again, prevData, pc, resolved,
                   title, text, norm_title, pageid, toc, attempt, calls, raised,
                   netFor, delays, last>>

(* lines 204-211: a keyword to process: resolve_title is called *)
BeginQuery ==
    /\ pc = "loop"
    /\ idx \in Rows
    /\ ~Blank(idx)
    /\ query' = QueryOf(idx)
    /\ pc' = "action_search"
    /\ attempt' = 1
    /\ calls' = << >>
    /\ raised' = {}
    /\ last' = NoRequest
    /\ UNCHANGED <<keywords, others, remote, marker, data, again, prevData, idx, resolved,
                   title, text, norm_title, pageid, toc, netFor, delays>>

(* lines 211-219: resolve_title has returned or raised; the orchestrator sets
   resolved, title and the defaults of the extract step *)
Resolved(outcome) ==
    /\ resolved' = IF outcome.raises THEN None ELSE outcome.value
    /\ raised' = IF outcome.raises THEN raised \cup {"resolve_title"} ELSE raised
    /\ title' = effective_title(resolved', query)
    /\ text' = ""
    /\ norm_title' = title'
    /\ pageid' = None
    /\ pc' = stage_after("resolve")
    /\ attempt' = 1
    /\ UNCHANGED <<query, toc>>

(* lines 90-100: one attempt of resolve_title_action_search; a title that is
   not empty is returned by resolve_title (line 124), otherwise the REST
   search is called (line 125) *)
resolve_title_action_search ==
    /\ pc = "action_search"
    /\ \E resp \in Answers("action", query, attempt) :
          /\ Request("action", query, resp)
          /\ IF request_raises(resp) /\ more_attempts(attempt)
             THEN Retry
             ELSE LET outcome == IF request_raises(resp)
                                 THEN action_search_exhausted
                                 ELSE Returns(FirstTitle(resp.body))
                  IN  IF ~outcome.raises /\ resolve_title_falls_back(outcome.value)
                      THEN /\ pc' = "rest_search"
                           /\ attempt' = 1
                           /\ UNCHANGED <<locals, raised>>
                      ELSE Resolved(outcome)
    /\ UNCHANGED <<keywords, others, marker, data, again, prevData, idx, delays>>

(* lines 109-119: one attempt of resolve_title_rest_search, whose result is
   resolve_title's *)
resolve_title_rest_search ==
    /\ pc = "rest_search"
    /\ \E resp \in Answers("rest", query, attempt) :
          /\ Request("rest", query, resp)
          /\ IF request_raises(resp)
             THEN IF more_attempts(attempt) THEN Retry
                  ELSE Resolved(rest_search_exhausted)
             ELSE Resolved(Returns(FirstTitle(resp.body)))
    /\ UNCHANGED <<keywords, others, marker, data, again, prevData, idx, delays>>

\* fault variant: no try/except around the call of line 221: the script ends
Extracted_uncaught(outcome) ==
    IF outcome.raises
    THEN /\ pc' = "exit"
         /\ attempt' = 1
         /\ UNCHANGED <<locals, raised>>
    ELSE /\ text' = outcome.value.text
         /\ norm_title' = outcome.value.norm_title
         /\ pageid' = outcome.value.pageid
         /\ toc' = << >>
         /\ pc' = stage_after("extract")
         /\ attempt' = 1
         /\ UNCHANGED <<query, resolved, title, raised>>

(* lines 220-226: fetch_plaintext_extract has returned or raised *)
Extracted(outcome) ==
    /\ IF outcome.raises
       THEN /\ raised' = raised \cup {"fetch_plaintext_extract"}
            /\ UNCHANGED <<text, norm_title, pageid>>
       ELSE /\ text' = outcome.value.text
            /\ norm_title' = outcome.value.norm_title
            /\ pageid' = outcome.value.pageid
            /\ UNCHANGED raised
    /\ toc' = << >>
    /\ pc' = stage_after("extract")
    /\ attempt' = 1
    /\ UNCHANGED <<query, resolved, title>>

(* lines 147-163: one attempt of fetch_plaintext_extract *)
fetch_plaintext_extract ==
    /\ pc = "extract"
    /\ \E resp \in Answers("extract", title, attempt) :
          /\ Request("extract", title, resp)
          /\ IF request_raises(resp)
             THEN IF more_attempts(attempt) THEN Retry
                  ELSE Extracted(extract_exhausted)
             ELSE Extracted(Returns(ExtractResult(resp.body, title)))
    /\ UNCHANGED <<keywords, others, marker, data, again, prevData, idx, delays>>

(* lines 227-230: fetch_sections has returned or raised *)
Outlined(outcome) ==
    /\ IF outcome.raises
       THEN /\ raised' = raised \cup {"fetch_sections"}
            /\ UNCHANGED toc
       ELSE /\ toc' = outcome.value
            /\ UNCHANGED raised
    /\ pc' = stage_after("sections")
    /\ attempt' = 1
    /\ UNCHANGED <<query, resolved, title, text, norm_title, pageid>>

(* lines 178-194: one attempt of fetch_sections *)
fetch_sections ==
    /\ pc = "sections"
    /\ \E resp \in Answers("parse", sections_arg, attempt) :
          /\ Request("parse", sections_arg, resp)
          /\ IF request_raises(resp)
             THEN IF more_attempts(attempt) THEN Retry
                  ELSE Outlined(sections_exhausted)
             ELSE Outlined(Returns(SectionNames(resp.body)))
    /\ UNCHANGED <<keywords, others, marker, data, again, prevData, idx, delays>>

(* lines 232-245: the record is built and written as one line *)
Write ==
    /\ pc = "write"
    /\ data' = [data EXCEPT !.lines = append_line(@, Line(obj, idx))]
    /\ pc' = "sleep"
    /\ UNCHANGED <<keywords, others, remote, marker, again, prevData, idx, locals, attempt,
                   calls, raised, netFor, delays, last>>

(* line 247: time.sleep(DELAY_BETWEEN_REQUESTS), then the next row *)
Sleep ==
    /\ pc = "sleep"
    /\ delays' = inter_record_delays(delays)
    /\ idx' = idx + 1
    /\ pc' = "loop"
    /\ UNCHANGED <<keywords, others, remote, marker, data, again, prevData, locals, attempt,
                   calls, raised, netFor, last>>

(* line 249: the rows are exhausted: the file is closed, the script ends *)
EndLoop ==
    /\ pc = "loop"
    /\ idx \notin Rows
    /\ pc' = "exit"
    /\ UNCHANGED <<keywords, others, remote, marker, data, again, prevData, idx, locals,
                   attempt, calls, raised, netFor, delays, last>>

(* The script is executed again: the same keywords.xlsx and the same remote
   state, the files as the last execution left them, a fresh process. *)
Execute ==
    /\ pc = "exit"
    /\ again' = TRUE
    /\ prevData' = data
    /\ pc' = "start"
    /\ idx' = 1
    /\ query' = << >> /\ resolved' = None /\ title' = << >> /\ text' = ""
    /\ norm_title' = << >> /\ pageid' = None /\ toc' = << >>
    /\ attempt' = 1
    /\ calls' = << >>
    /\ raised' = {}
    /\ netFor' = {}
    /\ delays' = 0
    /\ last' = NoRequest
    /\ UNCHANGED <<keywords, others, remote, marker, data>>

Step ==
    \/ FirstRun
    \/ SubsequentRun
    \/ Open
    \/ SkipBlank
    \/ BeginQuery
    \/ resolve_title_action_search
    \/ resolve_title_rest_search
    \/ fetch_plaintext_extract
    \/ fetch_sections
    \/ Write
    \/ Sleep
    \/ EndLoop

Next == Step \/ Execute

Spec == Init /\ [][Next]_vars

(* The executions of the script over a dataset folder that may hold, next to
   data.txt, an entry the script did not write (a file, or a subdirectory,
   which os.remove cannot remove). *)
InitFolder ==
    /\ keywords \in UNION {[1..n -> KeywordCells] : n \in 0..MaxFolderKeywords}
    /\ remote = << >>
    /\ marker \in BOOLEAN
    /\ data \in {NoFile, StaleData}
    /\ others \in BOOLEAN
    /\ again = FALSE
    /\ prevData = NoFile
    /\ pc = "start"
    /\ idx = 1
    /\ query = << >> /\ resolved = None /\ title = << >> /\ text = ""
    /\ norm_title = << >> /\ pageid = None /\ toc = << >>
    /\ attempt = 1
    /\ calls = << >>
    /\ raised = {}
    /\ netFor = {}
    /\ delays = 0
    /\ last = NoRequest

FolderSpec == InitFolder /\ [][Next]_vars

(* One execution of the script, which the interpreter runs to its end: a
   step that can be taken is taken. *)
FairSpec == Init /\ [][Step]_vars /\ WF_vars(Step)

-----------------------------------------------------------------------------
(* Vocabulary of the properties.  What the remote answered is read from
   `remote`; what the program did with it from its variables and data.txt. *)

EmptyOrWhitespace(s) == \A i \in DOMAIN s : s[i] = " "
BlankEntry(row) == EmptyOrWhitespace(str(keywords[row]))

Written(row) == \E j \in DOMAIN data.lines : data.lines[j].src = row
LastLine == data.lines[Len(data.lines)]

NonEmptyTitle(opt) == opt # << >> /\ opt[1] # << >>
Called(endpoint) == \E i \in DOMAIN calls : calls[i][1] = endpoint
IsDown(endpoint, arg) == Known(endpoint, arg) /\ ~remote[<<endpoint, arg>>].ok
Answered(endpoint, arg) == Known(endpoint, arg) /\ remote[<<endpoint, arg>>].ok
BodyOf(endpoint, arg) == remote[<<endpoint, arg>>].body

AfterResolve == {"extract", "sections", "write", "sleep"}
AfterExtract == {"sections", "write", "sleep"}

-----------------------------------------------------------------------------
(* C1 (as stated): at the end of a run every entry of the input list, blank
   or not, has its record written. *)
C1_EveryEntryWritten == pc = "exit" => \A r \in Rows : Written(r)

(* C1 (amended): whatever the search, extract and outline endpoints do
   (exhausted retries, no hits, missing page), a run that has opened the
   output eventually ends with the record of every entry that is not blank
   written: no failure on one query aborts the run or the queries after it. *)
C1_EveryQueryWritten ==
    (pc = "open") ~> (pc = "exit" /\ \A r \in Rows : ~BlankEntry(r) => Written(r))

C1_Witness ==
    /\ pc = "exit"
    /\ \E r \in Rows :
          /\ r + 1 \in Rows
          /\ IsDown("action", QueryOf(r))
          /\ IsDown("extract", QueryOf(r))
          /\ IsDown("parse", QueryOf(r))
          /\ QueryOf(r + 1) # QueryOf(r)
          /\ Written(r) /\ Written(r + 1)

(* C2: when the Action API search answers with a non-empty title,
   resolve_title returns exactly that title and the REST search is never
   called for that query. *)
C2_PrimaryHitIsReturned ==
    (/\ pc \in AfterResolve \cup {"action_search", "rest_search"}
     /\ Answered("action", query)
     /\ NonEmptyTitle(FirstTitle(BodyOf("action", query))))
    => /\ ~Called("rest")
       /\ pc # "rest_search"
       /\ pc \in AfterResolve =>
             /\ resolved = FirstTitle(BodyOf("action", query))
             /\ "resolve_title" \notin raised

C2_Witness ==
    /\ pc = "extract"
    /\ resolved = Some(HitAction)
    /\ calls = << <<"action", query>> >>

(* C3: when the Action API search answers with no hits, resolve_title calls
   the REST search and its outcome is the REST search's: the title of its
   first hit, None when it has no hits either, its exception when it fails. *)
C3_SecondaryResultIsUsed ==
    (/\ pc \in AfterResolve
     /\ Answered("action", query)
     /\ BodyOf("action", query) = << >>)
    => /\ Len(calls) >= 2
       /\ calls[1] = <<"action", query>> /\ calls[2] = <<"rest", query>>
       /\ IF IsDown("rest", query)
          THEN "resolve_title" \in raised
          ELSE /\ "resolve_title" \notin raised
               /\ resolved = FirstTitle(BodyOf("rest", query))

C3_Witness ==
    /\ pc = "extract"
    /\ Answered("action", query) /\ BodyOf("action", query) = << >>
    /\ Answered("rest", query) /\ BodyOf("rest", query) = << >>
    /\ resolved = None

(* What the extract step gave the orchestrator for `title`: the fetcher's
   return value, or the defaults of line 219 when it raised. *)
ExtractStep ==
    IF IsDown("extract", title)
    THEN [text |-> "", norm_title |-> title, pageid |-> None]
    ELSE ExtractResult(BodyOf("extract", title), title)

(* C4: when the outline endpoint fails on every attempt, fetch_sections
   returns [] without raising, and the record is still written, with
   table_of_contents [] and raw_text and title as the extract step gave them. *)
C4_OutlineFailureIsAbsorbed ==
    (pc \in {"write", "sleep"} /\ IsDown("parse", norm_title))
    => /\ "fetch_sections" \notin raised
       /\ toc = << >>
       /\ pc = "sleep" =>
             /\ LastLine.src = idx
             /\ LastLine.obj.table_of_contents = << >>
             /\ LastLine.obj.raw_text = ExtractStep.text
             /\ LastLine.obj.title = ExtractStep.norm_title

C4_Witness ==
    /\ pc = "sleep"
    /\ IsDown("parse", norm_title)
    /\ LastLine.obj.raw_text = Extract
    /\ LastLine.obj.table_of_contents = << >>

(* What resolution yields for `query`, read from the remote's answers. *)
ResolutionOf(q) ==
    IF IsDown("action", q) THEN None
    ELSE IF NonEmptyTitle(FirstTitle(BodyOf("action", q)))
         THEN FirstTitle(BodyOf("action", q))
         ELSE IF IsDown("rest", q) THEN None ELSE FirstTitle(BodyOf("rest", q))

(* C5: the title passed to the extract step is the resolved title when
   resolution yields a non-empty one, and the stripped query otherwise, both
   when neither search has a hit and when resolve_title raises. *)
C5_EffectiveTitle ==
    pc \in AfterResolve
    => /\ query = strip(str(keywords[idx]))
       /\ title = IF NonEmptyTitle(ResolutionOf(query))
                  THEN ResolutionOf(query)[1] ELSE query
       /\ \A i \in DOMAIN calls : calls[i][1] = "extract" => calls[i][2] = title
       /\ pc \in AfterExtract => Called("extract")

C5_Witness ==
    /\ pc = "sections"
    /\ "resolve_title" \in raised
    /\ calls[Len(calls)] = <<"extract", <<"a", " ", "b">> >>

(* C6: when fetch_plaintext_extract raises after its last attempt, the
   orchestrator goes on with the same query with text "", the title it asked
   for as normalized title and no page id; the outline is fetched for that
   title and a record with raw_text "" and that title is written. *)
C6_ExtractFailureFallsBack ==
    (pc \in AfterExtract /\ IsDown("extract", title))
    => /\ "fetch_plaintext_extract" \in raised
       /\ text = "" /\ norm_title = title /\ pageid = None
       /\ pc \in {"write", "sleep"} => calls[Len(calls)] = <<"parse", title>>
       /\ pc = "sleep" =>
             /\ LastLine.src = idx
             /\ LastLine.obj.raw_text = ""
             /\ LastLine.obj.title = title

C6_Witness ==
    /\ pc = "sleep"
    /\ "fetch_plaintext_extract" \in raised
    /\ title = HitAction
    /\ LastLine.obj.title = HitAction
    /\ LastLine.obj.raw_text = ""

(* C7: the url of every line of data.txt is canonical_url of the language
   and of that line's own title: spaces become underscores and the result
   is percent-encoded. *)
C7_UrlIsCanonicalUrlOfTitle ==
    \A j \in DOMAIN data.lines :
        /\ data.lines[j].obj.url = canonical_url(WIKI_LANG, data.lines[j].obj.title)
        /\ \A i \in DOMAIN data.lines[j].obj.url : data.lines[j].obj.url[i] # " "

C7_Witness ==
    /\ pc = "sleep"
    /\ title = HitAction
    /\ LastLine.obj.title = Redirect
    /\ LastLine.obj.url = <<"https://", "en", ".wikipedia.org/wiki/", "R", "_", "%", "2", "5">>

(* C8: an entry that is empty or whitespace-only gets no record and no
   request, and the step that meets it moves to the next entry without
   writing, requesting or delaying. *)
C8_BlankEntryIsSkipped ==
    /\ [](\A r \in Rows : BlankEntry(r) => r \notin netFor /\ ~Written(r))
    /\ [][(pc = "loop" /\ idx \in Rows /\ BlankEntry(idx))
          => /\ idx' = idx + 1
             /\ pc' = "loop"
             /\ UNCHANGED <<data, remote, netFor, delays, calls>>]_vars

C8_Witness ==
    /\ pc = "exit"
    /\ Len(keywords) = 2
    /\ keywords[1] = TextCell(<<" ">>)
    /\ Written(2)
    /\ netFor = {2}
    /\ delays = 1

(* The rows of the input that hold a query, in input order. *)
QueryRows == SelectSeq([r \in Rows |-> r], LAMBDA r : ~BlankEntry(r))

(* C9: at the end of a run data.txt holds exactly one record per entry that
   is not blank, in input order: nothing reordered, repeated or merged. *)
C9_OutputFollowsInputOrder ==
    pc = "exit" => [j \in DOMAIN data.lines |-> data.lines[j].src] = QueryRows

C9_Witness ==
    /\ pc = "exit"
    /\ Len(data.lines) = 2
    /\ QueryOf(1) = QueryOf(2)
    /\ data.lines[1].obj = data.lines[2].obj

(* C10: an execution that follows another, with the same keyword list and
   the same remote state, leaves a data.txt with the records of the earlier
   one, same fields and same order, in place of the earlier file. *)
C10_RerunReproducesOutput ==
    (pc = "exit" /\ again)
    => [j \in DOMAIN data.lines |-> data.lines[j].obj]
          = [j \in DOMAIN prevData.lines |-> prevData.lines[j].obj]

C10_Witness ==
    /\ pc = "exit"
    /\ again
    /\ Len(data.lines) = 2
    /\ data.lines[1].obj # data.lines[2].obj
    /\ data = prevData

-----------------------------------------------------------------------------
CallStages == {"action_search", "rest_search", "extract", "sections"}
SearchStages == {"action_search", "rest_search"}

\* a step of a retry loop: one attempt, which sends one request
AttemptStep == pc \in CallStages

(* C11: a call of one of the four functions sends at most MAX_RETRIES
   requests; a request after the first is sent only when the one before it
   failed, and the call ends with the first successful response; the two
   searches and the extract fetcher raise exactly when attempt MAX_RETRIES
   has failed too, the outline fetcher never raises. *)
C11_RetriesAreBounded ==
    /\ [](attempt \in 1..MAX_RETRIES /\ "fetch_sections" \notin raised)
    /\ [][AttemptStep =>
            /\ attempt > 1 => ~last.ok
            /\ last'.ok => pc' # pc /\ attempt' = 1
            /\ pc' = pc => ~last'.ok /\ attempt' = attempt + 1
            /\ pc \in SearchStages =>
                  ("resolve_title" \in raised' <=> ~last'.ok /\ attempt = MAX_RETRIES)
            /\ pc = "extract" =>
                  ("fetch_plaintext_extract" \in raised'
                      <=> ~last'.ok /\ attempt = MAX_RETRIES)
            /\ pc = "sections" => raised' = raised]_vars

\* the extract fetcher has raised and the outline fetcher is at its last attempt
C11_Witness ==
    /\ pc = "sections" /\ attempt = MAX_RETRIES /\ ~last.ok
    /\ "fetch_plaintext_extract" \in raised

(* C12 (as stated): the backoff sleeps lie between the attempts: attempt
   k + 1 follows a sleep of 0.7 * k after the failed attempt k, and a call
   whose last attempt has failed raises, or returns its fallback, without a
   sleep after that attempt. *)
C12_DelaysOnlyBetweenAttempts ==
    /\ pc \in CallStages /\ attempt > 1 => last.slept = backoff(attempt - 1)
    /\ pc \in AfterResolve /\ attempt = 1 /\ ~last.ok => last.slept = 0

(* C13: when the primary search has failed on every attempt, resolve_title
   raises to the orchestrator and the secondary search is not called; the
   secondary search is called only after the primary search was answered and
   gave no title. *)
C13_PrimaryFailurePropagates ==
    /\ pc \in {"rest_search"} \cup AfterResolve /\ Called("rest") =>
          /\ Answered("action", query)
          /\ ~NonEmptyTitle(FirstTitle(BodyOf("action", query)))
    /\ pc \in AfterResolve /\ IsDown("action", query) =>
          /\ "resolve_title" \in raised
          /\ ~Called("rest")
          /\ resolved = None

C13_Witness ==
    /\ pc = "extract"
    /\ IsDown("action", query)
    /\ calls = << <<"action", query>> >>
    /\ "resolve_title" \in raised

\* the endpoint a search stage asks
EndpointOf(stage) == IF stage = "action_search" THEN "action" ELSE "rest"

(* C14: a search request that is answered successfully with zero hits ends
   its call: the call returns None in that step, without another attempt,
   without a backoff sleep and without raising, so a call answered that way
   at its first attempt has sent exactly one request.  After the primary
   search resolve_title goes on to the secondary search; after the secondary
   search the orchestrator gets None. *)
C14_NoHitsIsNotAFailure ==
    [][(/\ pc \in SearchStages
        /\ last'.ok
        /\ remote'[<<EndpointOf(pc), query>>].body = << >>)
       => /\ pc' # pc
          /\ attempt' = 1
          /\ last'.slept = 0
          /\ raised' = raised
          /\ pc = "action_search" => pc' = "rest_search" /\ calls' = <<<<"action", query>>>>
          /\ pc = "rest_search" => pc' = "extract" /\ resolved' = None]_vars

\* both searches were answered with zero hits, each by its first response
C14_Witness ==
    /\ pc = "extract" /\ attempt = 1
    /\ calls = << <<"action", query>>, <<"rest", query>> >>
    /\ Answered("action", query) /\ BodyOf("action", query) = << >>
    /\ Answered("rest", query) /\ BodyOf("rest", query) = << >>
    /\ last.ok /\ last.slept = 0
    /\ raised = {}

(* C15: the outline is requested for the normalized title the extract step
   gave (the title asked for when the extract failed), and that same title
   is the record's title and the title its url is built from. *)
C15_OutlineUsesNormalizedTitle ==
    pc \in {"write", "sleep"} =>
        /\ calls[Len(calls)] = <<"parse", ExtractStep.norm_title>>
        /\ pc = "sleep" =>
              /\ LastLine.obj.title = ExtractStep.norm_title
              /\ LastLine.obj.url = canonical_url(WIKI_LANG, ExtractStep.norm_title)

\* the extract endpoint normalized the title to another one
C15_Witness ==
    /\ pc = "sleep"
    /\ title # Redirect
    /\ calls[Len(calls)] = <<"parse", Redirect>>
    /\ LastLine.obj.title = Redirect
    /\ LastLine.obj.url = canonical_url(WIKI_LANG, Redirect)

-----------------------------------------------------------------------------
\* data.txt is open: between line 203 and the end of the with block
FileOpen == {"loop"} \cup CallStages \cup {"write", "sleep"}

(* What data.txt may hold on disk: the file is opened with the default
   buffering and never flushed before it is closed (lines 203-249), so while
   it is open the last lines written may still be in the buffer; Python
   hands the buffer on in whole write() calls, here whole lines. *)
OnDisk ==
    IF pc \in FileOpen
    THEN {SubSeq(data.lines, 1, k) : k \in 0..Len(data.lines)}
    ELSE {data.lines}

IsPrefix(s, t) == Len(s) <= Len(t) /\ SubSeq(t, 1, Len(s)) = s
Objs(lines) == [j \in DOMAIN lines |-> lines[j].obj]

\* the step appends the complete record of the query at hand to data.txt
AppendsRecord ==
    /\ pc = "write"
    /\ data'.exists
    /\ data'.lines = Append(data.lines, Line(obj, idx))
    /\ obj.url = canonical_url(WIKI_LANG, norm_title)
    /\ obj.title = norm_title
    /\ obj.raw_text = text
    /\ obj.table_of_contents = toc

(* C16: while data.txt is open its lines only grow: a step leaves them as
   they are or, at the end of a query, appends that query's complete record
   after them, so what the file holds at any moment is the beginning of what
   it holds at the end of the run.  In an execution that repeats an earlier
   one, whatever of the file has reached the disk is at every moment a
   prefix of that earlier, full output. *)
C16_OutputOnlyGrows ==
    /\ [](again /\ pc \in FileOpen \cup {"exit"}
             => \A d \in OnDisk : IsPrefix(Objs(d), Objs(prevData.lines)))
    /\ [][(pc \in FileOpen) => (data' = data \/ AppendsRecord)]_vars

\* the first of two records is written, the second query is not yet started
C16_Witness ==
    /\ again
    /\ pc = "sleep"
    /\ Len(data.lines) = 1
    /\ Len(prevData.lines) = 2
    /\ data.lines[1].obj = prevData.lines[1].obj

(* C17: the delay of line 247 is taken once for every record, after the
   record is written and before the next row is looked at, whatever the
   stages of the query did: when a row is begun, and at the end of the run,
   as many delays were taken as records were written; between a record's
   write and its delay the delay is the one still due. *)
C17_OneDelayPerRecord ==
    /\ pc \in {"loop", "write", "exit"} \cup CallStages
          => delays = Len(data.lines)
    /\ pc = "sleep" => delays + 1 = Len(data.lines)

\* two records, the second after a failed extract, and two delays
C17_Witness ==
    /\ pc = "loop"
    /\ "fetch_plaintext_extract" \in raised
    /\ Len(data.lines) = 2
    /\ delays = 2

Rank(endpoint) ==
    CASE endpoint = "action" -> 1
      [] endpoint = "rest" -> 2
      [] endpoint = "extract" -> 3
      [] endpoint = "parse" -> 4

\* the rows before row r that are queries
QueriesBefore(r) == {q \in 1..(r - 1) : ~BlankEntry(q)}

(* C18: the run is sequential.  The calls of a query are made in the order
   primary search, secondary search, extract, outline, each at most once and
   each after the calls before it have ended; the record is written after the
   extract and the outline calls; a row has requests sent for it only when
   the record of every query before it is written and its delay taken. *)
C18_StrictlySequential ==
    /\ \A i, j \in DOMAIN calls : i < j => Rank(calls[i][1]) < Rank(calls[j][1])
    /\ pc \in CallStages /\ attempt > 1 => Rank(calls[Len(calls)][1]) =
          (CASE pc = "action_search" -> 1 [] pc = "rest_search" -> 2
             [] pc = "extract" -> 3 [] pc = "sections" -> 4)
    /\ pc \in {"write", "sleep"} =>
          /\ Called("action") /\ Called("extract") /\ Called("parse")
          /\ calls[Len(calls)][1] = "parse"
    /\ pc \in FileOpen =>
          \A r \in netFor :
              /\ r <= idx
              /\ \A q \in QueriesBefore(r) : Written(q)
              /\ delays >= Cardinality(QueriesBefore(r))
    /\ pc \in CallStages \cup {"write"} => ~Written(idx)

\* the second query is at its last call, after the first one's record and delay
C18_Witness ==
    /\ pc = "sections"
    /\ idx = 2
    /\ netFor = {1, 2}
    /\ Len(calls) = 4
    /\ Written(1) /\ delays = 1

(* C19 (as stated): an execution that finds the snapshot file present has
   emptied the dataset folder when it starts to fetch. *)
C19_FolderAlwaysCleared ==
    [][(pc = "start" /\ marker) => (pc' = "open" /\ ~others')]_vars

(* C19: the snapshot file is created by an execution that finds it absent,
   and by no other step; it is never removed.  An execution that finds it
   present leaves it as it is, removes what it can of the dataset folder
   (data.txt and the other entries are each removed or, when os.remove
   fails, left), goes on to fetch, and the fetch starts with an empty
   data.txt.  An execution that finds it absent creates it and fetches when
   AUTO_FETCH_ON_FIRST_RUN is set, without touching the dataset folder
   before the fetch. *)
C19_MarkerAndCleanup ==
    [][/\ pc = "start" /\ ~marker =>
            /\ marker'
            /\ pc' = (IF AUTO_FETCH_ON_FIRST_RUN THEN "open" ELSE "exit")
            /\ data' = data /\ others' = others
       /\ pc = "start" /\ marker =>
            /\ marker'
            /\ pc' = "open"
            /\ data' \in {data, NoFile}
            /\ others' \in {others, FALSE}
       /\ pc # "start" => marker' = marker /\ others' = others
       /\ pc = "open" => pc' = "loop" /\ data'.exists /\ data'.lines = << >>]_vars

\* a second execution has failed to remove an entry and has truncated data.txt
C19_Witness ==
    /\ again /\ marker /\ others
    /\ pc = "loop" /\ idx = 1
    /\ data.lines = << >>
    /\ prevData.lines # << >>

(* C20: fetch_and_write_ndjson ends, and a query costs at most
   4 * MAX_RETRIES requests: at most four calls are made for it (primary and
   secondary search, extract, outline), and a call is never past its attempt
   MAX_RETRIES, each attempt being one request. *)
C20_RunEndsAndRequestsAreBounded ==
    /\ (pc = "open") ~> (pc = "exit")
    /\ [](attempt <= MAX_RETRIES /\ Len(calls) * MAX_RETRIES <= 4 * MAX_RETRIES)

\* the fourth call of a query is at its last attempt
C20_Witness ==
    /\ pc = "sections"
    /\ Len(calls) = 4
    /\ attempt = MAX_RETRIES
    /\ ~last.ok /\ last.slept = backoff(MAX_RETRIES - 1)

====
